---- MODULE Spec2Model ----
(***************************************************************************)
(* The lesson player (VideoLearning) of the e-learning frontend as a state *)
(* machine: the component's React state, the <video> element it renders,   *)
(* the requests it has in flight, its timers, and the backend lock state   *)
(* it reads.  One action per event handler, effect or promise continuation.*)
(* Three other parts of the application follow it: the session kept by      *)
(* AuthProvider, the quiz page and the quiz form of the admin pages.        *)
(*                                                                         *)
(* Numbers.  Media time is counted in ticks of 1/BarWidth second, so that  *)
(* ratio * duration (seekToClientX) is an integer for every pixel of the   *)
(* progress bar.  Volume is counted in twentieths (0.05), the keyboard     *)
(* step.  Percentages are kept as exact fractions [n, d] meaning 100*n/d.  *)
(***************************************************************************)
EXTENDS Integers, Sequences, FiniteSets, TLC

\* ------------------------------------------------------------------ bounds
NumLevels == 2        \* levels of the course, ids 1..NumLevels in list order
MaxLoads == 2         \* fetchLevelData calls in flight at once
MaxEnded == 1         \* media "ended" events followed per behaviour
MaxTimers == 1        \* pending warning-clear timeouts
MaxWarnTimers == 2    \* the same, in the models of the warning banner
BarWidth == 2         \* width of the progress bar in pixels (rect.width)
CoarseDur == 2        \* media duration, in seconds, of the session model
BufOver == 1          \* how far beyond the duration a buffered range may end
NumUsers == 2         \* accounts; the token of account u is written u
NumQuestions == 2     \* questions of the quiz taken
NumOptions == 2       \* options of each question of the quiz taken
MaxTimeLimit == 1     \* quiz.timeLimit, in minutes, at most
MaxFormQuestions == 2 \* questions added to the quiz form
MaxFormOptions == 3   \* options a question of the quiz form grows to
ScenarioDur == 600    \* media duration, in seconds, of the seek-to-ratio scenario
FineDur == 29         \* media duration, in seconds, of the seek/report model

\* ------------------------------------------------------- program constants
SeekStepSec == 10     \* seekBy(-10) / seekBy(10)
MinReportPercent == 10 \* watchedPercent > 10
VolMax == 20          \* volume 1.0 in twentieths
SliderStep == 2       \* step="0.1" of the range input, in twentieths
KeyVolStep == 1       \* 0.05 of ArrowUp / ArrowDown
DelayBlocked == 4     \* setTimeout(..., 4000) after a rejected play()
DelayCapture == 5     \* setTimeout(..., 5000) after PrintScreen
DelayLocked == 4      \* setTimeout(..., 4000) after a locked navigation

Levels == 1..NumLevels
NoLevel == 0          \* level === null

\* Static level detail served by the backend (levelRes.data.level).
QuizEnabled(l) == l % 2 = 1
HasVideo(l) == l <= 2

VARIABLES
  mounted,          \* the component is mounted
  levelId,          \* route parameter :levelId
  level,            \* useState level (id of the detail held, NoLevel = null)
  allLevels,        \* useState allLevels: sequence of [id, locked]
  isLoading, isPlaying, isMuted, progress, duration, currentTime,
  bufferedPercent, volume, showQuizDialog, hasQuiz, videoLoadFailed,
  tabSwitchWarning, securityWarning,
  video,            \* the <video> element behind videoRef
  playReq,          \* promise of video.play(): "none", "pending", "rejected"
  loads,            \* fetchLevelData calls in flight: sequence of [lvl, stage]
  ended,            \* handleVideoEnded calls: sequence of [lvl, hq, log]
  timers,           \* pending setTimeout(() => setSecurityWarning(null))
  srvLocked,        \* backend: the set of locked level ids
  mediaDur,         \* backend: duration of every level's media, in ticks
  lastReport,       \* the last progressAPI.completeLevel request sent
  lastEvent,        \* the last event handled, with what it found
  observe,          \* the events and requests this specification records
  showControls,     \* useState showControls
  showSettings,     \* useState showSettings
  hideTimer,        \* controlsHideTimeoutRef: the pending auto-hide timeout
  auth,             \* AuthProvider: localStorage, user, isLoading, requests
  quizPage,         \* QuizPage: its state, timer and request
  quizForm          \* AdminQuiz: formData.questions

\* the lesson player and the backend it talks to
playerVars ==
  <<mounted, levelId, level, allLevels, isLoading, isPlaying, isMuted,
    progress, duration, currentTime, bufferedPercent, volume, showQuizDialog,
    hasQuiz, videoLoadFailed, tabSwitchWarning, securityWarning, video,
    playReq, loads, ended, timers, srvLocked, mediaDur, lastReport, lastEvent,
    observe, showControls, showSettings, hideTimer>>

\* the other parts of the application
elsewhere == <<auth, quizPage, quizForm>>

vars == <<playerVars, elsewhere>>

\* groups used in UNCHANGED
routeVars == <<mounted, levelId>>
dataVars == <<level, allLevels, hasQuiz>>
timeVars == <<progress, duration, currentTime, bufferedPercent>>
soundVars == <<isMuted, volume>>
warnVars == <<tabSwitchWarning, securityWarning, timers>>
ctlVars == <<showControls, showSettings, hideTimer>>
backVars == <<srvLocked, mediaDur, observe, elsewhere>>
serverVars == <<backVars, ctlVars>>

\* ----------------------------------------------------------------- helpers
Min(a, b) == IF a < b THEN a ELSE b
Max(a, b) == IF a > b THEN a ELSE b

RECURSIVE Gcd(_, _)
Gcd(a, b) == IF b = 0 THEN a ELSE Gcd(b, a % b)

\* The number 100 * n / d (n >= 0, d > 0), as a fraction in lowest terms.
Pct(n, d) == [n |-> n \div Gcd(n, d), d |-> d \div Gcd(n, d)]
PctZero == Pct(0, 1)
PctEq(p, q) == p.n * q.d = q.n * p.d
PctLeq(p, q) == p.n * q.d <= q.n * p.d

\* Mutant of MathRound: Math.floor in place of Math.round.
MathFloor(p) == (100 * p.n) \div p.d

\* Math.round(100 * n / d): the nearest integer, halves rounded up.
MathRound(p) == (200 * p.n + p.d) \div (2 * p.d)

NoWarning == "none"
NoReport == [kind |-> "none"]
Other == [name |-> "other"]

\* The <video> element.  dur = 0 stands for a duration that is not known yet
\* (NaN before loadedmetadata).
VideoAbsent ==
  [present |-> FALSE, paused |-> TRUE, time |-> 0, dur |-> 0, buf |-> 0,
   vol |-> VolMax, muted |-> FALSE, endq |-> FALSE]
VideoFresh == [VideoAbsent EXCEPT !.present = TRUE]

hasVideoSource(lv) == lv # NoLevel /\ HasVideo(lv)
showVideo(lv, failed) == hasVideoSource(lv) /\ ~failed

\* What React renders: the spinner while isLoading, else the player, which
\* contains the <video> element only when showVideo.
Rendered(m, loading, lv, failed) == m /\ ~loading /\ showVideo(lv, failed)

\* The element after a render with the given state: unmounted, kept, or a
\* fresh one (a new element, or the same element loading a new src).
Commit(m, loading, lv, failed) ==
  IF ~Rendered(m, loading, lv, failed) THEN VideoAbsent
  ELSE IF video.present /\ lv = level THEN video
  ELSE VideoFresh

\* A pending play() promise is rejected when its element is removed or
\* starts loading another resource.
PlayReqAfter(v) ==
  IF playReq = "pending" /\ v # video /\ (~v.present \/ v = VideoFresh)
  THEN "rejected" ELSE playReq

\* The course outline as the backend serves it now.
ServerLevels == [i \in Levels |-> [id |-> i, locked |-> i \in srvLocked]]

\* allLevels.findIndex(l => l._id === id), 1-based; 0 when absent (-1).
findIndex(list, id) ==
  IF \E i \in 1..Len(list) : list[i].id = id
  THEN CHOOSE i \in 1..Len(list) :
         list[i].id = id /\ \A j \in 1..(i - 1) : list[j].id # id
  ELSE 0

\* lastEvent and lastReport are history variables.  A specification records
\* in them only what its claims speak about (the names in observe); any
\* other event leaves Other behind.
Ev(e) == IF e.name \in observe THEN e ELSE Other
Report(r) == IF "report" \in observe THEN r ELSE NoReport

\* History: a timeout that outlives the level session it was set in.
MarkStale(ts) ==
  IF "stale" \in observe
  THEN [i \in 1..Len(ts) |-> [ts[i] EXCEPT !.stale = TRUE]]
  ELSE ts

\* ----------------------------------------------------- the control surface
\* controlsHideTimeoutRef: no timeout pending, or one whose callback closed
\* over the isPlaying and showSettings of the render that set it.
NoHideTimer == [set |-> FALSE, playing |-> FALSE, settings |-> FALSE]

\* scheduleControlsHide of a render with isPlaying = p, showSettings = s:
\* clearTimeout of the pending timeout, setShowControls(true), setTimeout.
scheduleControlsHide(p, s) ==
  /\ showControls' = TRUE
  /\ hideTimer' = [set |-> TRUE, playing |-> p, settings |-> s]

\* The effect on [isPlaying, showSettings] after a handler that leaves the
\* settings menu alone: when isPlaying changed, its clean-up clears the
\* pending timeout and scheduleControlsHide of the new render runs.
ControlsEffect ==
  /\ showSettings' = showSettings
  /\ IF isPlaying' # isPlaying
     THEN scheduleControlsHide(isPlaying', showSettings)
     ELSE UNCHANGED <<showControls, hideTimer>>

\* ------------------------------------------- the rest of the application
Users == 1..NumUsers
NoOne == 0            \* user === null, no 'token' / 'user' item in localStorage
Garbage == -1         \* a 'user' item that JSON.parse rejects

\* AuthProvider with the session of account u verified, nothing in flight.
AuthSettled(u) ==
  [token |-> u, savedUser |-> u, user |-> u, isLoading |-> FALSE,
   init |-> "done", sent |-> NoOne, login |-> NoOne, via |-> "none",
   refresh |-> NoOne, signedIn |-> NoOne]

NoTime == -1          \* timeLeft === null
NoAnswers == <<>>     \* answers = {}: a function on the questions answered

\* The quiz page is not on screen.
QuizAway ==
  [mounted |-> FALSE, loaded |-> FALSE, timeLimit |-> 0, answers |-> NoAnswers,
   isSubmitting |-> FALSE, result |-> "none", error |-> FALSE,
   timeLeft |-> NoTime, sent |-> FALSE, body |-> NoAnswers]

\* The quiz form of the admin pages is not on screen.
NoFormOp == [op |-> "none"]
FormAway == [mounted |-> FALSE, questions |-> <<>>, last |-> NoFormOp]

\* The lesson player is not on screen.
PlayerAway ==
  /\ observe = {}
  /\ mounted = FALSE
  /\ levelId = 1
  /\ srvLocked = {}
  /\ mediaDur = CoarseDur * BarWidth
  /\ level = NoLevel
  /\ allLevels = <<>>
  /\ isLoading = FALSE
  /\ isPlaying = FALSE
  /\ isMuted = FALSE
  /\ progress = PctZero
  /\ duration = 0
  /\ currentTime = 0
  /\ bufferedPercent = PctZero
  /\ volume = VolMax
  /\ showQuizDialog = FALSE
  /\ hasQuiz = FALSE
  /\ videoLoadFailed = FALSE
  /\ tabSwitchWarning = FALSE
  /\ securityWarning = NoWarning
  /\ video = VideoAbsent
  /\ playReq = "none"
  /\ loads = <<>>
  /\ ended = <<>>
  /\ timers = <<>>
  /\ lastReport = NoReport
  /\ lastEvent = Other
  /\ showControls = TRUE
  /\ showSettings = FALSE
  /\ hideTimer = NoHideTimer

\* -------------------------------------------------------------------- Init
\* The component right after mount on the route of a level in ids.
InitFrom(ids, durs, obs) ==
  /\ observe = obs
  /\ mounted = TRUE
  /\ levelId \in ids
  /\ srvLocked \in SUBSET (Levels \ {levelId})
  /\ mediaDur \in {d * BarWidth : d \in durs}
  /\ level = NoLevel
  /\ allLevels = <<>>
  /\ isLoading = TRUE
  /\ isPlaying = FALSE
  /\ isMuted = FALSE
  /\ progress = PctZero
  /\ duration = 0
  /\ currentTime = 0
  /\ bufferedPercent = PctZero
  /\ volume = VolMax
  /\ showQuizDialog = FALSE
  /\ hasQuiz = FALSE
  /\ videoLoadFailed = FALSE
  /\ tabSwitchWarning = FALSE
  /\ securityWarning = NoWarning
  /\ video = VideoAbsent
  /\ playReq = "none"
  /\ loads = <<[lvl |-> levelId, stage |-> "fetch"]>>
  /\ ended = <<>>
  /\ timers = <<>>
  /\ lastReport = NoReport
  /\ lastEvent = Other
  /\ showControls = TRUE
  /\ showSettings = FALSE
  /\ hideTimer = [set |-> TRUE, playing |-> FALSE, settings |-> FALSE]
  /\ auth = AuthSettled(1)
  /\ quizPage = QuizAway
  /\ quizForm = FormAway

\* Mounted on the route of a level of the course.
InitWith(durs, obs) == InitFrom(Levels, durs, obs)


\* ------------------------------------------------------- sequence helpers
Remove(s, i) == [j \in 1..(Len(s) - 1) |-> IF j < i THEN s[j] ELSE s[j + 1]]
Last(s) == s[Len(s)]

\* History: own marks the timeout that was set together with the warning
\* now in the banner.  Every later setSecurityWarning(message) disowns it.
Disown(ts) == [i \in 1..Len(ts) |-> [ts[i] EXCEPT !.own = FALSE]]

Timer(delay) ==
  [delay |-> delay, stale |-> FALSE, own |-> "owner" \in observe]

\* The pending timeouts a specification follows at once.
TimerCap == IF "owner" \in observe THEN MaxWarnTimers ELSE MaxTimers

\* ------------------------------------------------- level change and Load
\* The route parameter changes to target: the effects keyed on levelId run.
\* fetchLevelData starts (setIsLoading(true), setVideoLoadFailed(false)),
\* the spinner replaces the player, so the <video> element is unmounted.
\* Timeouts and mount-time intervals are left as they are.
fetchLevelData(target) ==
  /\ target # levelId
  /\ Len(loads) < MaxLoads
  /\ levelId' = target
  /\ isLoading' = TRUE
  /\ videoLoadFailed' = FALSE
  /\ loads' = Append(loads, [lvl |-> target, stage |-> "fetch"])
  /\ video' = Commit(mounted, TRUE, level, FALSE)
  /\ playReq' = PlayReqAfter(video')
  /\ timers' = MarkStale(timers)
  /\ UNCHANGED <<mounted, dataVars, isPlaying, timeVars, soundVars,
                 showQuizDialog, tabSwitchWarning, ended, serverVars,
                 lastReport>>

\* Mutant of SidebarClick: the entry navigates although it is locked.
SidebarClickIgnoringLock(i) ==
  /\ mounted /\ ~isLoading
  /\ i \in 1..Len(allLevels)
  /\ fetchLevelData(allLevels[i].id)
  /\ securityWarning' = securityWarning
  /\ lastEvent' = Ev([name |-> "sidebar", from |-> levelId])

\* Sidebar entry i is clicked: !isLocked && navigate(...).
SidebarClick(i) ==
  /\ mounted /\ ~isLoading
  /\ i \in 1..Len(allLevels)
  /\ ~allLevels[i].locked
  /\ fetchLevelData(allLevels[i].id)
  /\ securityWarning' = securityWarning
  /\ lastEvent' = Ev([name |-> "sidebar", from |-> levelId])

\* The locked flag of level id in the level list the player holds.
LockedInList(id) ==
  LET k == findIndex(allLevels, id) IN k > 0 /\ allLevels[k].locked

\* The route parameter changes without a click in the page (browser back or
\* forward to a level visited before, hence unlocked for the backend and in
\* the list held): useParams delivers the new levelId and the
\* [courseId, levelId] effects run, also while an earlier fetchLevelData is
\* still in flight.
RouteChange(target) ==
  /\ mounted
  /\ target \in Levels \ srvLocked
  /\ ~LockedInList(target)
  /\ fetchLevelData(target)
  /\ securityWarning' = securityWarning
  /\ lastEvent' = Ev([name |-> "route", from |-> levelId])

\* Mutant of navigateToLevel: the locked check is missing.
navigateToLevelIgnoringLock(step) ==
  LET currentIndex == findIndex(allLevels, levelId)
      targetIndex == currentIndex + step
      inRange == targetIndex >= 1 /\ targetIndex <= Len(allLevels)
  IN
  /\ mounted /\ ~isLoading
  /\ lastEvent' = Ev([name |-> "navigate", from |-> levelId,
                      exists |-> inRange,
                      locked |-> inRange /\ allLevels[targetIndex].locked])
  /\ IF inRange
     THEN /\ fetchLevelData(allLevels[targetIndex].id)
          /\ securityWarning' = securityWarning
     ELSE UNCHANGED <<routeVars, dataVars, isLoading, isPlaying, timeVars,
                      soundVars, showQuizDialog, videoLoadFailed, warnVars,
                      video, playReq, loads, ended, serverVars, lastReport>>

\* navigateToLevel(direction): step is -1 for 'prev', +1 for 'next'.
navigateToLevel(step) ==
  LET currentIndex == findIndex(allLevels, levelId)
      targetIndex == currentIndex + step
      inRange == targetIndex >= 1 /\ targetIndex <= Len(allLevels)
  IN
  /\ mounted /\ ~isLoading
  /\ lastEvent' = Ev([name |-> "navigate", from |-> levelId,
                      exists |-> inRange,
                      locked |-> inRange /\ allLevels[targetIndex].locked])
  /\ IF inRange /\ allLevels[targetIndex].locked
     THEN /\ Len(timers) < TimerCap
          /\ securityWarning' = "locked"
          /\ timers' = Append(Disown(timers), Timer(DelayLocked))
          /\ UNCHANGED <<routeVars, dataVars, isLoading, isPlaying, timeVars,
                         soundVars, showQuizDialog, videoLoadFailed,
                         tabSwitchWarning, video, playReq, loads, ended,
                         serverVars, lastReport>>
     ELSE IF inRange
     THEN /\ fetchLevelData(allLevels[targetIndex].id)
          /\ securityWarning' = securityWarning
     ELSE UNCHANGED <<routeVars, dataVars, isLoading, isPlaying, timeVars,
                      soundVars, showQuizDialog, videoLoadFailed, warnVars,
                      video, playReq, loads, ended, serverVars, lastReport>>

\* Promise.all([getById, getByCourse]) of load i resolves.
LoadFetchOK(i) ==
  LET l == loads[i].lvl IN
  /\ mounted
  /\ i \in 1..Len(loads) /\ loads[i].stage = "fetch"
  /\ level' = l
  /\ allLevels' = ServerLevels
  /\ IF QuizEnabled(l)
     THEN /\ loads' = [loads EXCEPT ![i].stage = "quiz"]
          /\ isLoading' = isLoading
     ELSE /\ loads' = Remove(loads, i)
          /\ isLoading' = FALSE
  /\ video' = Commit(mounted, isLoading', l, videoLoadFailed)
  /\ playReq' = PlayReqAfter(video')
  /\ lastEvent' = Ev([name |-> IF QuizEnabled(l) THEN "fetched" ELSE "loaded",
                      from |-> l, found |-> FALSE])
  /\ UNCHANGED <<routeVars, hasQuiz, isPlaying, timeVars, soundVars,
                 showQuizDialog, videoLoadFailed, warnVars, ended, serverVars,
                 lastReport>>

\* Promise.all of load i rejects: catch logs, finally setIsLoading(false).
LoadFetchFail(i) ==
  /\ mounted
  /\ i \in 1..Len(loads) /\ loads[i].stage = "fetch"
  /\ loads' = Remove(loads, i)
  /\ isLoading' = FALSE
  /\ video' = Commit(mounted, FALSE, level, videoLoadFailed)
  /\ playReq' = PlayReqAfter(video')
  /\ lastEvent' = Ev([name |-> "loadFailed", from |-> loads[i].lvl])
  /\ UNCHANGED <<routeVars, dataVars, isPlaying, timeVars, soundVars,
                 showQuizDialog, videoLoadFailed, warnVars, ended, serverVars,
                 lastReport>>

\* quizAPI.getByLevel of load i settles: setHasQuiz(found), then finally.
LoadQuiz(i, found) ==
  /\ mounted
  /\ i \in 1..Len(loads) /\ loads[i].stage = "quiz"
  /\ hasQuiz' = found
  /\ loads' = Remove(loads, i)
  /\ isLoading' = FALSE
  /\ video' = Commit(mounted, FALSE, level, videoLoadFailed)
  /\ playReq' = PlayReqAfter(video')
  /\ lastEvent' = Ev([name |-> "loaded", from |-> loads[i].lvl,
                      found |-> found])
  /\ UNCHANGED <<routeVars, level, allLevels, isPlaying, timeVars, soundVars,
                 showQuizDialog, videoLoadFailed, warnVars, ended, serverVars,
                 lastReport>>

\* ------------------------------------------------------ media and playback
\* onLoadedMetadata: the duration of the resource becomes known.
handleLoadedMetadata ==
  /\ video.present /\ video.dur = 0
  /\ video' = [video EXCEPT !.dur = mediaDur]
  /\ duration' = mediaDur
  /\ lastEvent' = Ev(Other)
  /\ UNCHANGED <<routeVars, dataVars, isLoading, isPlaying, progress,
                 currentTime, bufferedPercent, soundVars, showQuizDialog,
                 videoLoadFailed, warnVars, playReq, loads, ended, serverVars,
                 lastReport>>

\* togglePlay, the element playing: pause it.
togglePlayPause ==
  /\ mounted /\ ~isLoading /\ video.present
  /\ isPlaying
  /\ video' = [video EXCEPT !.paused = TRUE]
  /\ playReq' = IF playReq = "pending" THEN "rejected" ELSE playReq
  /\ isPlaying' = FALSE
  /\ lastEvent' = Ev([name |-> "toggle", wasPlaying |-> TRUE])
  /\ UNCHANGED <<routeVars, dataVars, isLoading, timeVars, soundVars,
                 showQuizDialog, videoLoadFailed, warnVars, loads, ended,
                 backVars, lastReport>>
  /\ ControlsEffect

\* Mutant of togglePlayStart: setIsPlaying(true) runs before play() settles.
togglePlayStartOptimistic ==
  /\ mounted /\ ~isLoading /\ video.present
  /\ ~isPlaying
  /\ playReq # "rejected"
  /\ video' = [video EXCEPT !.paused = FALSE,
                            !.time = IF video.dur > 0 /\ video.time = video.dur
                                     THEN 0 ELSE video.time,
                            !.endq = FALSE]
  /\ playReq' = "pending"
  /\ isPlaying' = TRUE
  /\ lastEvent' = Ev([name |-> "toggle", wasPlaying |-> FALSE])
  /\ UNCHANGED <<routeVars, dataVars, isLoading, timeVars,
                 soundVars, showQuizDialog, videoLoadFailed, warnVars, loads,
                 ended, backVars, lastReport>>
  /\ ControlsEffect

\* togglePlay, not playing: video.play() is accepted and its promise is
\* pending until playback starts.  play() at the end of the media seeks back
\* to the start.
togglePlayStart ==
  /\ mounted /\ ~isLoading /\ video.present
  /\ ~isPlaying
  /\ playReq # "rejected"
  /\ video' = [video EXCEPT !.paused = FALSE,
                            !.time = IF video.dur > 0 /\ video.time = video.dur
                                     THEN 0 ELSE video.time,
                            !.endq = FALSE]
  /\ playReq' = "pending"
  /\ lastEvent' = Ev([name |-> "toggle", wasPlaying |-> FALSE])
  /\ UNCHANGED <<routeVars, dataVars, isLoading, isPlaying, timeVars,
                 soundVars, showQuizDialog, videoLoadFailed, warnVars, loads,
                 ended, serverVars, lastReport>>

\* The catch branch of togglePlay.
PlayBlocked ==
  /\ Len(timers) < TimerCap
  /\ isPlaying' = FALSE
  /\ securityWarning' = "blocked"
  /\ timers' = Append(Disown(timers), Timer(DelayBlocked))
  /\ lastEvent' = Ev([name |-> "playRejected"])
  /\ UNCHANGED <<routeVars, dataVars, isLoading, timeVars, soundVars,
                 showQuizDialog, videoLoadFailed, tabSwitchWarning, loads,
                 ended, backVars, lastReport>>
  /\ ControlsEffect

\* togglePlay, not playing: the browser refuses play() at once (autoplay
\* policy); the element stays paused.
togglePlayBlocked ==
  /\ mounted /\ ~isLoading /\ video.present
  /\ ~isPlaying /\ playReq = "none" /\ video.paused
  /\ PlayBlocked
  /\ UNCHANGED <<video, playReq>>

\* await video.play() returns: setIsPlaying(true).
PlayResolved ==
  /\ mounted
  /\ playReq = "pending"
  /\ video.dur > 0
  /\ playReq' = "none"
  /\ isPlaying' = TRUE
  /\ lastEvent' = Ev([name |-> "playResolved"])
  /\ UNCHANGED <<routeVars, dataVars, isLoading, timeVars, soundVars,
                 showQuizDialog, videoLoadFailed, warnVars, video, loads,
                 ended, backVars, lastReport>>
  /\ ControlsEffect

\* await video.play() throws after the promise was pending (the element
\* was paused, removed or failed meanwhile).
PlayRejected ==
  /\ mounted
  /\ playReq = "rejected"
  /\ PlayBlocked
  /\ playReq' = "none"
  /\ UNCHANGED video

\* handleTimeUpdate for an element at time t.
handleTimeUpdate(t) ==
  /\ currentTime' = t
  /\ duration' = video.dur
  /\ progress' = Pct(t, video.dur)

\* handleVideoEnded: setIsPlaying(false) and the completion report.
handleVideoEnded ==
  /\ isPlaying' = FALSE
  /\ ended' = Append(ended, [lvl |-> levelId, hq |-> hasQuiz,
                             log |-> <<"report">>])
  /\ lastReport' = Report([kind |-> "complete", levelId |-> levelId,
                           pct |-> 100, t |-> video.dur, d |-> video.dur,
                           src |-> level])

\* Playback advances by one second and the element fires timeupdate; on
\* reaching the end it pauses itself and fires ended in the same task.
Advance ==
  LET t == Min(video.dur, video.time + BarWidth) IN
  /\ video.present /\ ~video.paused /\ playReq = "none"
  /\ video.dur > 0 /\ video.time < video.dur
  /\ handleTimeUpdate(t)
  /\ IF t < video.dur
     THEN /\ video' = [video EXCEPT !.time = t]
          /\ UNCHANGED <<isPlaying, ended, lastReport>>
     ELSE /\ Len(ended) < MaxEnded
          /\ video' = [video EXCEPT !.time = t, !.paused = TRUE]
          /\ handleVideoEnded
  /\ lastEvent' = Ev([name |-> IF t < video.dur THEN "timeupdate" ELSE "ended"])
  /\ UNCHANGED <<routeVars, dataVars, isLoading, bufferedPercent, soundVars,
                 showQuizDialog, videoLoadFailed, warnVars, playReq, loads,
                 backVars>>
  /\ ControlsEffect

\* timeupdate after a seek: React's copy of the time catches up.
SeekTimeUpdate ==
  /\ video.present /\ video.dur > 0
  /\ currentTime # video.time \/ duration # video.dur
  /\ handleTimeUpdate(video.time)
  /\ lastEvent' = Ev([name |-> "timeupdate"])
  /\ UNCHANGED <<routeVars, dataVars, isLoading, isPlaying, bufferedPercent,
                 soundVars, showQuizDialog, videoLoadFailed, warnVars, video,
                 playReq, loads, ended, serverVars, lastReport>>

\* ended after a seek to the end of the media.
SeekEnded ==
  /\ video.present /\ video.endq
  /\ Len(ended) < MaxEnded
  /\ video' = [video EXCEPT !.paused = TRUE, !.endq = FALSE]
  /\ playReq' = IF playReq = "pending" THEN "rejected" ELSE playReq
  /\ handleVideoEnded
  /\ lastEvent' = Ev([name |-> "ended"])
  /\ UNCHANGED <<routeVars, dataVars, isLoading, timeVars, soundVars,
                 showQuizDialog, videoLoadFailed, warnVars, loads, backVars>>
  /\ ControlsEffect

\* Mutant of videoOnError: setIsPlaying(false) is missing.
videoOnErrorKeepsPlaying ==
  /\ video.present
  /\ videoLoadFailed' = TRUE
  /\ video' = Commit(mounted, isLoading, level, TRUE)
  /\ playReq' = PlayReqAfter(video')
  /\ lastEvent' = Ev([name |-> "error", from |-> levelId])
  /\ UNCHANGED <<routeVars, dataVars, isLoading, isPlaying, timeVars,
                 soundVars, showQuizDialog, warnVars, loads, ended,
                 serverVars, lastReport>>

\* onError of the <video> element: setVideoLoadFailed(true),
\* setIsPlaying(false); the fallback panel replaces the element.
videoOnError ==
  /\ video.present
  /\ videoLoadFailed' = TRUE
  /\ isPlaying' = FALSE
  /\ video' = Commit(mounted, isLoading, level, TRUE)
  /\ playReq' = PlayReqAfter(video')
  /\ lastEvent' = Ev([name |-> "error", from |-> levelId])
  /\ UNCHANGED <<routeVars, dataVars, isLoading, timeVars, soundVars,
                 showQuizDialog, warnVars, loads, ended, backVars,
                 lastReport>>
  /\ ControlsEffect

\* seekBy(deltaSeconds) and seekToClientX share the write to the element.
\* The percentage updateBuffered stores for a last buffered range ending at
\* end: Math.min(100, (end / video.duration) * 100).
BufferedOf(end, dur) == IF end > dur THEN Pct(1, 1) ELSE Pct(end, dur)

\* Mutant of updateBuffered: Math.min(100, ...) is missing.
updateBufferedNoClamp(end) ==
  /\ mounted /\ video.present
  /\ end >= video.buf
  /\ end <= (IF video.dur > 0 THEN video.dur + BufOver ELSE 0)
  /\ video' = [video EXCEPT !.buf = end]
  /\ bufferedPercent' =
       IF video.dur <= 0 THEN bufferedPercent
       ELSE IF end = 0 THEN PctZero
       ELSE Pct(end, video.dur)
  /\ lastEvent' = Ev([name |-> "progress"])
  /\ UNCHANGED <<routeVars, dataVars, isLoading, isPlaying, progress, duration,
                 currentTime, soundVars, showQuizDialog, videoLoadFailed,
                 warnVars, playReq, loads, ended, serverVars, lastReport>>

\* onProgress: the browser has fetched more of the resource, the last
\* buffered range now ends at end (nothing is buffered before the metadata
\* is known, and the end may lie a little beyond the duration), and
\* updateBuffered runs.
updateBuffered(end) ==
  /\ mounted /\ video.present
  /\ end >= video.buf
  /\ end <= (IF video.dur > 0 THEN video.dur + BufOver ELSE 0)
  /\ video' = [video EXCEPT !.buf = end]
  /\ bufferedPercent' =
       IF video.dur <= 0 THEN bufferedPercent
       ELSE IF end = 0 THEN PctZero
       ELSE BufferedOf(end, video.dur)
  /\ lastEvent' = Ev([name |-> "progress"])
  /\ UNCHANGED <<routeVars, dataVars, isLoading, isPlaying, progress, duration,
                 currentTime, soundVars, showQuizDialog, videoLoadFailed,
                 warnVars, playReq, loads, ended, serverVars, lastReport>>

SeekTo(nextTime, prog, target, byRatio, px) ==
  /\ video' = [video EXCEPT !.time = nextTime,
                            !.endq = (nextTime = video.dur)]
  /\ progress' = prog
  /\ lastEvent' = Ev([name |-> "seek", target |-> target, from |-> video.time,
                      byRatio |-> byRatio, px |-> px])

\* Mutant of seekBy: Math.max(0, ...) is missing.
seekByNoFloor(deltaSeconds) ==
  /\ mounted
  /\ IF ~video.present \/ video.dur <= 0
     THEN /\ lastEvent' = Ev([name |-> "seekIgnored",
                              present |-> video.present])
          /\ UNCHANGED <<video, progress>>
     ELSE LET target == video.time + deltaSeconds * BarWidth
              nextTime == Min(video.dur, target)
          IN SeekTo(nextTime, Pct(nextTime, video.dur), target, FALSE, 0)
  /\ UNCHANGED <<routeVars, dataVars, isLoading, isPlaying, duration,
                 currentTime, bufferedPercent, soundVars, showQuizDialog,
                 videoLoadFailed, warnVars, playReq, loads, ended, serverVars,
                 lastReport>>

\* Mutant of seekBy: the test of video.duration is missing, so a seek on an
\* element without metadata sets the progress to 0 / 0.
seekByNoDurationTest(deltaSeconds) ==
  /\ mounted
  /\ IF ~video.present
     THEN /\ lastEvent' = Ev([name |-> "seekIgnored",
                              present |-> video.present])
          /\ UNCHANGED <<video, progress>>
     ELSE LET target == video.time + deltaSeconds * BarWidth
              nextTime == Min(video.dur, Max(0, target))
          IN SeekTo(nextTime,
                    IF video.dur > 0 THEN Pct(nextTime, video.dur)
                    ELSE [n |-> 0, d |-> 0],
                    target, FALSE, 0)
  /\ UNCHANGED <<routeVars, dataVars, isLoading, isPlaying, duration,
                 currentTime, bufferedPercent, soundVars, showQuizDialog,
                 videoLoadFailed, warnVars, playReq, loads, ended, serverVars,
                 lastReport>>

\* seekBy(deltaSeconds): returns at once without an element or a duration.
seekBy(deltaSeconds) ==
  /\ mounted
  /\ IF ~video.present \/ video.dur <= 0
     THEN /\ lastEvent' = Ev([name |-> "seekIgnored",
                              present |-> video.present])
          /\ UNCHANGED <<video, progress>>
     ELSE LET target == video.time + deltaSeconds * BarWidth
              nextTime == Min(video.dur, Max(0, target))
          IN SeekTo(nextTime, Pct(nextTime, video.dur), target, FALSE, 0)
  /\ UNCHANGED <<routeVars, dataVars, isLoading, isPlaying, duration,
                 currentTime, bufferedPercent, soundVars, showQuizDialog,
                 videoLoadFailed, warnVars, playReq, loads, ended, serverVars,
                 lastReport>>

\* Mutant of seekToClientX: setProgress(ratio) without the factor 100.
seekToClientXNoScale(x) ==
  /\ mounted
  /\ IF ~video.present \/ video.dur <= 0
     THEN /\ lastEvent' = Ev([name |-> "seekIgnored",
                              present |-> video.present])
          /\ UNCHANGED <<video, progress>>
     ELSE LET ratioPx == Min(BarWidth, Max(0, x))
              nextTime == (ratioPx * video.dur) \div BarWidth
          IN SeekTo(nextTime, Pct(ratioPx, 100 * BarWidth),
                    (x * video.dur) \div BarWidth, TRUE, x)
  /\ UNCHANGED <<routeVars, dataVars, isLoading, isPlaying, duration,
                 currentTime, bufferedPercent, soundVars, showQuizDialog,
                 videoLoadFailed, warnVars, playReq, loads, ended, serverVars,
                 lastReport>>

\* seekToClientX(clientX): x is clientX - rect.left, in pixels.
seekToClientX(x) ==
  /\ mounted
  /\ IF ~video.present \/ video.dur <= 0
     THEN /\ lastEvent' = Ev([name |-> "seekIgnored",
                              present |-> video.present])
          /\ UNCHANGED <<video, progress>>
     ELSE LET ratioPx == Min(BarWidth, Max(0, x))
              nextTime == (ratioPx * video.dur) \div BarWidth
          IN SeekTo(nextTime, Pct(ratioPx, BarWidth),
                    (x * video.dur) \div BarWidth, TRUE, x)
  /\ UNCHANGED <<routeVars, dataVars, isLoading, isPlaying, duration,
                 currentTime, bufferedPercent, soundVars, showQuizDialog,
                 videoLoadFailed, warnVars, playReq, loads, ended, serverVars,
                 lastReport>>

\* ---------------------------------------------------------------- monitors
\* Both listeners of the visibility/blur effect run the same body.
PauseForTabSwitch(name) ==
  /\ mounted
  /\ lastEvent' = Ev([name |-> name, wasPlaying |-> isPlaying,
                      shown |-> showControls])
  /\ IF video.present /\ isPlaying
     THEN /\ video' = [video EXCEPT !.paused = TRUE]
          /\ playReq' = IF playReq = "pending" THEN "rejected" ELSE playReq
          /\ isPlaying' = FALSE
          /\ tabSwitchWarning' = TRUE
     ELSE UNCHANGED <<video, playReq, isPlaying, tabSwitchWarning>>
  /\ UNCHANGED <<routeVars, dataVars, isLoading, timeVars, soundVars,
                 showQuizDialog, videoLoadFailed, securityWarning, timers,
                 loads, ended, backVars, lastReport>>
  /\ ControlsEffect

\* visibilitychange with document.hidden = true.
handleVisibilityChange == PauseForTabSwitch("hidden")

\* blur of the window.
handleBlur == PauseForTabSwitch("blur")

\* keyup of PrintScreen.
handlePrintScreen ==
  /\ mounted
  /\ Len(timers) < TimerCap
  /\ securityWarning' = "capture"
  /\ timers' = Append(Disown(timers), Timer(DelayCapture))
  /\ lastEvent' = Ev([name |-> "printScreen"])
  /\ UNCHANGED <<routeVars, dataVars, isLoading, isPlaying, timeVars,
                 soundVars, showQuizDialog, videoLoadFailed, tabSwitchWarning,
                 video, playReq, loads, ended, serverVars, lastReport>>

\* One tick of devtoolsInterval; dw = outerWidth - innerWidth,
\* dh = outerHeight - innerHeight.
DevtoolsThreshold == 160
devtoolsInterval(dw, dh) ==
  /\ mounted
  /\ lastEvent' = Ev([name |-> "devtools",
                   over |-> (dw > DevtoolsThreshold \/ dh > DevtoolsThreshold),
                   wasPlaying |-> isPlaying])
  /\ IF dw > DevtoolsThreshold \/ dh > DevtoolsThreshold
     THEN /\ IF video.present /\ ~video.paused
             THEN /\ video' = [video EXCEPT !.paused = TRUE]
                  /\ playReq' = IF playReq = "pending" THEN "rejected"
                                 ELSE playReq
                  /\ isPlaying' = FALSE
             ELSE UNCHANGED <<video, playReq, isPlaying>>
          /\ securityWarning' = "devtools"
          /\ timers' = Disown(timers)
     ELSE UNCHANGED <<video, playReq, isPlaying, securityWarning, timers>>
  /\ UNCHANGED <<routeVars, dataVars, isLoading, timeVars, soundVars,
                 showQuizDialog, videoLoadFailed, tabSwitchWarning, loads,
                 ended, backVars, lastReport>>
  /\ ControlsEffect

\* A warning-clear timeout fires: setSecurityWarning(null).  Timeouts of
\* equal or shorter delay fire in the order they were set.  After unmount
\* the callback still runs, on a component that is gone.
TimerFire(i) ==
  /\ i \in 1..Len(timers)
  /\ \A j \in 1..(i - 1) : timers[j].delay > timers[i].delay
  /\ timers' = Remove(timers, i)
  /\ securityWarning' = NoWarning
  /\ lastEvent' = Ev([name |-> "timeout", stale |-> timers[i].stale,
                      cleared |-> securityWarning, own |-> timers[i].own])
  /\ UNCHANGED <<routeVars, dataVars, isLoading, isPlaying, timeVars,
                 soundVars, showQuizDialog, videoLoadFailed, tabSwitchWarning,
                 video, playReq, loads, ended, serverVars, lastReport>>

\* The Dismiss buttons of the two banners.
DismissTabSwitchWarning ==
  /\ mounted /\ ~isLoading /\ tabSwitchWarning
  /\ tabSwitchWarning' = FALSE
  /\ lastEvent' = Ev(Other)
  /\ UNCHANGED <<routeVars, dataVars, isLoading, isPlaying, timeVars,
                 soundVars, showQuizDialog, videoLoadFailed, securityWarning,
                 timers, video, playReq, loads, ended, serverVars, lastReport>>

DismissSecurityWarning ==
  /\ mounted /\ ~isLoading /\ securityWarning # NoWarning
  /\ securityWarning' = NoWarning
  /\ lastEvent' = Ev(Other)
  /\ UNCHANGED <<routeVars, dataVars, isLoading, isPlaying, timeVars,
                 soundVars, showQuizDialog, videoLoadFailed, tabSwitchWarning,
                 timers, video, playReq, loads, ended, serverVars, lastReport>>

\* ------------------------------------------------------- progress reports
\* One tick of the 30 s progress interval.
progressInterval ==
  LET watchedPercent == Pct(video.time, video.dur)
      send == /\ video.present /\ level # NoLevel /\ video.dur > 0
              /\ 100 * video.time > MinReportPercent * video.dur
  IN
  /\ mounted
  /\ lastEvent' = Ev([name |-> "tick", sent |-> send,
                      afterFail |-> lastReport.kind = "periodicFailed"])
  /\ lastReport' =
       IF send
       THEN Report([kind |-> "periodic", levelId |-> levelId,
                    pct |-> MathRound(watchedPercent),
                    t |-> video.time, d |-> video.dur, src |-> level])
       ELSE lastReport
  /\ UNCHANGED <<routeVars, dataVars, isLoading, isPlaying, timeVars,
                 soundVars, showQuizDialog, videoLoadFailed, warnVars, video,
                 playReq, loads, ended, serverVars>>

\* Mutant of PeriodicFail: the catch shows a warning to the user.
PeriodicFailWarns ==
  /\ mounted
  /\ lastReport.kind = "periodic"
  /\ lastReport' = [lastReport EXCEPT !.kind = "periodicFailed"]
  /\ securityWarning' = "syncFailed"
  /\ lastEvent' = Ev([name |-> "reportFailed"])
  /\ UNCHANGED <<routeVars, dataVars, isLoading, isPlaying, timeVars,
                 soundVars, showQuizDialog, videoLoadFailed, tabSwitchWarning,
                 timers, video, playReq, loads, ended, serverVars>>

\* The periodic report last sent is rejected: .catch(console.error).
PeriodicFail ==
  /\ mounted
  /\ lastReport.kind = "periodic"
  /\ lastReport' = [lastReport EXCEPT !.kind = "periodicFailed"]
  /\ lastEvent' = Ev([name |-> "reportFailed"])
  /\ UNCHANGED <<routeVars, dataVars, isLoading, isPlaying, timeVars,
                 soundVars, showQuizDialog, videoLoadFailed, warnVars, video,
                 playReq, loads, ended, serverVars>>

InFlight(e) == e.log = <<"report">>
Refreshing(e) == Last(e.log) \in {"refresh", "prompt"}

\* Mutant of CompleteAck: the dialog opens without looking at hasQuiz.
CompleteAckAlwaysPrompts(i) ==
  LET e == ended[i] IN
  /\ mounted
  /\ i \in 1..Len(ended) /\ InFlight(e)
  /\ ended' = [ended EXCEPT ![i].log = e.log \o <<"ack", "refresh", "prompt">>]
  /\ showQuizDialog' = TRUE
  /\ srvLocked' \in {srvLocked, srvLocked \ {e.lvl + 1}}
  /\ lastEvent' = Ev([name |-> "ack"])
  /\ UNCHANGED <<routeVars, dataVars, isLoading, isPlaying, timeVars,
                 soundVars, videoLoadFailed, warnVars, video, playReq, loads,
                 mediaDur, observe, elsewhere, ctlVars,
                 lastReport>>

\* The completion report of ended[i] is acknowledged: the .then callback
\* requests the level list again and opens the quiz dialog if hasQuiz was
\* set when the video ended.  The backend may have unlocked the next level.
CompleteAck(i) ==
  LET e == ended[i] IN
  /\ mounted
  /\ i \in 1..Len(ended) /\ InFlight(e)
  /\ ended' = [ended EXCEPT ![i].log =
                  e.log \o <<"ack", "refresh">>
                        \o (IF e.hq THEN <<"prompt">> ELSE <<>>)]
  /\ showQuizDialog' = IF e.hq THEN TRUE ELSE showQuizDialog
  /\ srvLocked' \in {srvLocked, srvLocked \ {e.lvl + 1}}
  /\ lastEvent' = Ev([name |-> "ack"])
  /\ UNCHANGED <<routeVars, dataVars, isLoading, isPlaying, timeVars,
                 soundVars, videoLoadFailed, warnVars, video, playReq, loads,
                 mediaDur, observe, elsewhere, ctlVars,
                 lastReport>>

\* The completion report of ended[i] fails: .catch(console.error).
CompleteFail(i) ==
  /\ mounted
  /\ i \in 1..Len(ended) /\ InFlight(ended[i])
  /\ ended' = [ended EXCEPT ![i].log = @ \o <<"fail">>]
  /\ lastEvent' = Ev([name |-> "reportFailed"])
  /\ UNCHANGED <<routeVars, dataVars, isLoading, isPlaying, timeVars,
                 soundVars, showQuizDialog, videoLoadFailed, warnVars, video,
                 playReq, loads, serverVars, lastReport>>

\* The level list requested after completion arrives: setAllLevels.
RefreshOK(i) ==
  /\ mounted
  /\ i \in 1..Len(ended) /\ Refreshing(ended[i])
  /\ ended' = [ended EXCEPT ![i].log = @ \o <<"applied">>]
  /\ allLevels' = ServerLevels
  /\ lastEvent' = Ev([name |-> "refreshed"])
  /\ UNCHANGED <<routeVars, level, hasQuiz, isLoading, isPlaying, timeVars,
                 soundVars, showQuizDialog, videoLoadFailed, warnVars, video,
                 playReq, loads, serverVars, lastReport>>

\* Mutant of RefreshFail: the catch empties the level list.
RefreshFailClearsList(i) ==
  /\ mounted
  /\ i \in 1..Len(ended) /\ Refreshing(ended[i])
  /\ ended' = [ended EXCEPT ![i].log = @ \o <<"refreshFailed">>]
  /\ allLevels' = <<>>
  /\ lastEvent' = Ev([name |-> "refreshFailed"])
  /\ UNCHANGED <<routeVars, level, hasQuiz, isLoading, isPlaying, timeVars,
                 soundVars, showQuizDialog, videoLoadFailed, warnVars, video,
                 playReq, loads, serverVars, lastReport>>

\* The level list request fails: .catch(() => {}).
RefreshFail(i) ==
  /\ mounted
  /\ i \in 1..Len(ended) /\ Refreshing(ended[i])
  /\ ended' = [ended EXCEPT ![i].log = @ \o <<"refreshFailed">>]
  /\ lastEvent' = Ev([name |-> "refreshFailed"])
  /\ UNCHANGED <<routeVars, dataVars, isLoading, isPlaying, timeVars,
                 soundVars, showQuizDialog, videoLoadFailed, warnVars, video,
                 playReq, loads, serverVars, lastReport>>

\* "Review Video" in the quiz dialog.
ReviewVideo ==
  /\ mounted /\ ~isLoading /\ showQuizDialog
  /\ showQuizDialog' = FALSE
  /\ lastEvent' = Ev(Other)
  /\ UNCHANGED <<routeVars, dataVars, isLoading, isPlaying, timeVars,
                 soundVars, videoLoadFailed, warnVars, video, playReq, loads,
                 ended, serverVars, lastReport>>

\* The user leaves the page ("Back to Course", "Take Quiz"): the component
\* unmounts, its state is discarded, the effect clean-ups clear the
\* intervals and detach the listeners.  Timeouts created with setTimeout
\* are not cleared; promise continuations find a component that is gone.
Unmount ==
  /\ mounted
  /\ mounted' = FALSE
  /\ level' = NoLevel /\ allLevels' = <<>> /\ hasQuiz' = FALSE
  /\ isLoading' = FALSE /\ isPlaying' = FALSE
  /\ progress' = PctZero /\ duration' = 0 /\ currentTime' = 0
  /\ bufferedPercent' = PctZero
  /\ isMuted' = FALSE /\ volume' = VolMax
  /\ showQuizDialog' = FALSE /\ videoLoadFailed' = FALSE
  /\ tabSwitchWarning' = FALSE /\ securityWarning' = NoWarning
  /\ video' = VideoAbsent /\ playReq' = "none"
  /\ loads' = <<>> /\ ended' = <<>>
  /\ timers' = MarkStale(timers)
  /\ lastReport' = NoReport
  /\ lastEvent' = Ev([name |-> "unmount"])
  /\ showControls' = TRUE /\ showSettings' = FALSE
  /\ hideTimer' = NoHideTimer
  /\ UNCHANGED <<levelId, backVars>>

\* ------------------------------------------------------- control surface
\* onMouseMove / onTouchStart of the player container.
onMouseMove ==
  /\ mounted /\ ~isLoading
  /\ scheduleControlsHide(isPlaying, showSettings)
  /\ showSettings' = showSettings
  /\ lastEvent' = Ev([name |-> "pointer"])
  /\ UNCHANGED <<routeVars, dataVars, isLoading, isPlaying, timeVars,
                 soundVars, showQuizDialog, videoLoadFailed, warnVars, video,
                 playReq, loads, ended, backVars, lastReport>>

\* The settings button: setShowSettings(prev => !prev), then the effect on
\* [isPlaying, showSettings].
toggleSettings ==
  /\ mounted /\ ~isLoading /\ video.present
  /\ showSettings' = ~showSettings
  /\ scheduleControlsHide(isPlaying, ~showSettings)
  /\ lastEvent' = Ev([name |-> "settings"])
  /\ UNCHANGED <<routeVars, dataVars, isLoading, isPlaying, timeVars,
                 soundVars, showQuizDialog, videoLoadFailed, warnVars, video,
                 playReq, loads, ended, backVars, lastReport>>

\* Mutant of controlsHideTimeout: the callback hides without its test.
controlsHideTimeoutAlways ==
  /\ hideTimer.set
  /\ showControls' = FALSE
  /\ hideTimer' = NoHideTimer
  /\ showSettings' = showSettings
  /\ lastEvent' = Ev([name |-> "autoHide"])
  /\ UNCHANGED <<routeVars, dataVars, isLoading, isPlaying, timeVars,
                 soundVars, showQuizDialog, videoLoadFailed, warnVars, video,
                 playReq, loads, ended, backVars, lastReport>>

\* The auto-hide timeout fires, 2 s after it was set:
\* if (isPlaying && !showSettings) setShowControls(false).
controlsHideTimeout ==
  /\ hideTimer.set
  /\ showControls' =
       IF hideTimer.playing /\ ~hideTimer.settings THEN FALSE
       ELSE showControls
  /\ hideTimer' = NoHideTimer
  /\ showSettings' = showSettings
  /\ lastEvent' = Ev([name |-> "autoHide"])
  /\ UNCHANGED <<routeVars, dataVars, isLoading, isPlaying, timeVars,
                 soundVars, showQuizDialog, videoLoadFailed, warnVars, video,
                 playReq, loads, ended, backVars, lastReport>>

\* ------------------------------------------------------------ AuthProvider
\* A page load: AuthProvider as constructed, before its mount effect runs.
AuthFresh(t, su) ==
  [token |-> t, savedUser |-> su, user |-> NoOne, isLoading |-> TRUE,
   init |-> "todo", sent |-> NoOne, login |-> NoOne, via |-> "none",
   refresh |-> NoOne, signedIn |-> NoOne]

\* initAuth up to its await: the saved session is restored, isLoading is
\* cleared, and getMe is sent with the token the request interceptor finds
\* in localStorage.
initAuth ==
  /\ auth.init = "todo"
  /\ auth' =
       [auth EXCEPT
          !.user = IF auth.token # NoOne /\ auth.savedUser \in Users
                   THEN auth.savedUser ELSE @,
          !.savedUser = IF auth.token # NoOne /\ @ = Garbage THEN NoOne ELSE @,
          !.isLoading = FALSE,
          !.init = IF auth.token # NoOne THEN "verifying" ELSE "done",
          !.sent = auth.token]
  /\ UNCHANGED <<playerVars, quizPage, quizForm>>

\* await authAPI.getMe() returns the account of the token that was sent.
getMeOK ==
  /\ auth.init = "verifying"
  /\ auth' = [auth EXCEPT !.user = auth.sent, !.savedUser = auth.sent,
                          !.init = "done", !.sent = NoOne]
  /\ UNCHANGED <<playerVars, quizPage, quizForm>>

\* getMe is answered 401: the response interceptor removes both items and
\* sets window.location.href = '/login', the catch of initAuth removes
\* them again and clears user; the page is loaded anew.
getMeUnauthorized ==
  /\ auth.init = "verifying"
  /\ auth' = AuthFresh(NoOne, NoOne)
  /\ UNCHANGED <<playerVars, quizPage, quizForm>>

\* getMe fails otherwise (network, 5xx): the catch of initAuth.
getMeFailed ==
  /\ auth.init = "verifying"
  /\ auth' = [auth EXCEPT !.token = NoOne, !.savedUser = NoOne,
                          !.user = NoOne, !.init = "done", !.sent = NoOne]
  /\ UNCHANGED <<playerVars, quizPage, quizForm>>

\* login up to its await: the request for account u is sent from the form
\* shown to a visitor who is not signed in.
login(u) ==
  /\ ~auth.isLoading /\ auth.user = NoOne /\ auth.login = NoOne
  /\ auth' = [auth EXCEPT !.login = u, !.via = "login"]
  /\ UNCHANGED <<playerVars, quizPage, quizForm>>

\* register up to its await, likewise.
register(u) ==
  /\ ~auth.isLoading /\ auth.user = NoOne /\ auth.login = NoOne
  /\ auth' = [auth EXCEPT !.login = u, !.via = "register"]
  /\ UNCHANGED <<playerVars, quizPage, quizForm>>

\* authAPI.login / authAPI.register returns { token, user }.
loginOK ==
  /\ auth.login # NoOne
  /\ auth' = [auth EXCEPT !.token = auth.login, !.savedUser = auth.login,
                          !.user = auth.login, !.login = NoOne,
                          !.via = "none", !.signedIn = auth.login]
  /\ UNCHANGED <<playerVars, quizPage, quizForm>>

\* The request fails: login / register throws, nothing is stored.
loginFailed ==
  /\ auth.login # NoOne
  /\ auth' = [auth EXCEPT !.login = NoOne, !.via = "none"]
  /\ UNCHANGED <<playerVars, quizPage, quizForm>>

\* refreshUser up to its await: getMe with the token now in localStorage.
refreshUser ==
  /\ auth.user # NoOne /\ auth.token # NoOne /\ auth.refresh = NoOne
  /\ auth' = [auth EXCEPT !.refresh = auth.token]
  /\ UNCHANGED <<playerVars, quizPage, quizForm>>

\* The getMe of refreshUser returns the account of the token sent.
refreshOK ==
  /\ auth.refresh # NoOne
  /\ auth' = [auth EXCEPT !.user = auth.refresh, !.savedUser = auth.refresh,
                          !.refresh = NoOne]
  /\ UNCHANGED <<playerVars, quizPage, quizForm>>

\* It fails: console.error, nothing else.
refreshFailed ==
  /\ auth.refresh # NoOne
  /\ auth' = [auth EXCEPT !.refresh = NoOne]
  /\ UNCHANGED <<playerVars, quizPage, quizForm>>

\* logout: both items removed, user cleared, the page loaded anew.
logout ==
  /\ auth.user # NoOne
  /\ auth' = AuthFresh(NoOne, NoOne)
  /\ UNCHANGED <<playerVars, quizPage, quizForm>>

\* ---------------------------------------------------------------- QuizPage
SecPerMin == 60       \* quiz.timeLimit * 60
Unanswered == -1      \* answers[question._id] ?? -1

\* QuizPage as mounted: fetchQuiz is in flight.
QuizFresh == [QuizAway EXCEPT !.mounted = TRUE]

\* The timer effect on a render with timeLeft === null: it sets
\* quiz.timeLimit * 60 when the quiz has a time limit and no result is shown.
TimerStart(tl, result, timeLeft) ==
  IF tl > 0 /\ result = "none" /\ timeLeft = NoTime THEN tl * SecPerMin
  ELSE timeLeft

\* quiz.questions.map(question => ({questionId, selectedAnswer})).
formattedAnswers(answers) ==
  [q \in 1..NumQuestions |->
     IF q \in DOMAIN answers THEN answers[q] ELSE Unanswered]

\* handleSubmit(allowPartial) up to its await, on the page state p.
handleSubmit(p, allowPartial) ==
  IF ~p.loaded \/ p.isSubmitting THEN p
  ELSE IF ~allowPartial /\ Cardinality(DOMAIN p.answers) < NumQuestions
  THEN [p EXCEPT !.error = TRUE]
  ELSE [p EXCEPT !.isSubmitting = TRUE, !.error = FALSE, !.sent = TRUE,
                 !.body = formattedAnswers(p.answers)]

\* fetchQuiz resolves with a quiz of time limit tl minutes.
fetchQuizOK(tl) ==
  /\ quizPage.mounted /\ ~quizPage.loaded /\ ~quizPage.error
  /\ quizPage' = [quizPage EXCEPT
                    !.loaded = TRUE, !.timeLimit = tl,
                    !.timeLeft = TimerStart(tl, quizPage.result, NoTime)]
  /\ UNCHANGED <<playerVars, auth, quizForm>>

\* fetchQuiz fails: "Quiz Not Available".
fetchQuizFailed ==
  /\ quizPage.mounted /\ ~quizPage.loaded /\ ~quizPage.error
  /\ quizPage' = [quizPage EXCEPT !.error = TRUE]
  /\ UNCHANGED <<playerVars, auth, quizForm>>

\* handleAnswerSelect(questionId, optionIndex) on the question shown.
handleAnswerSelect(q, o) ==
  /\ quizPage.mounted /\ quizPage.loaded /\ quizPage.result = "none"
  /\ quizPage' = [quizPage EXCEPT !.answers =
                    [k \in DOMAIN @ \cup {q} |-> IF k = q THEN o ELSE @[k]]]
  /\ UNCHANGED <<playerVars, auth, quizForm>>

\* "Submit Quiz": enabled when nothing is being submitted and every
\* question is answered.
SubmitClick ==
  /\ quizPage.mounted /\ quizPage.loaded /\ quizPage.result = "none"
  /\ ~quizPage.isSubmitting
  /\ Cardinality(DOMAIN quizPage.answers) = NumQuestions
  /\ quizPage' = handleSubmit(quizPage, FALSE)
  /\ UNCHANGED <<playerVars, auth, quizForm>>

\* One tick of the 1 s interval of the timer effect, which exists while the
\* quiz has a time limit, no result is shown and timeLeft > 0.
QuizTick ==
  /\ quizPage.mounted /\ quizPage.loaded /\ quizPage.timeLimit > 0
  /\ quizPage.result = "none"
  /\ quizPage.timeLeft # NoTime /\ quizPage.timeLeft > 0
  /\ quizPage' =
       IF quizPage.timeLeft <= 1
       THEN [handleSubmit(quizPage, TRUE) EXCEPT !.timeLeft = 0]
       ELSE [quizPage EXCEPT !.timeLeft = @ - 1]
  /\ UNCHANGED <<playerVars, auth, quizForm>>

\* quizAPI.submit resolves: setResult, then finally.
submitOK(passed) ==
  /\ quizPage.mounted /\ quizPage.sent
  /\ quizPage' = [quizPage EXCEPT
                    !.result = IF passed THEN "passed" ELSE "failed",
                    !.isSubmitting = FALSE, !.sent = FALSE,
                    !.body = NoAnswers]
  /\ UNCHANGED <<playerVars, auth, quizForm>>

\* quizAPI.submit rejects: setError, then finally.
submitFailed ==
  /\ quizPage.mounted /\ quizPage.sent
  /\ quizPage' = [quizPage EXCEPT !.error = TRUE, !.isSubmitting = FALSE,
                                  !.sent = FALSE, !.body = NoAnswers]
  /\ UNCHANGED <<playerVars, auth, quizForm>>

\* "Try Again" on the result of a failed attempt.
handleRetry ==
  /\ quizPage.mounted /\ quizPage.result = "failed"
  /\ quizPage' = [quizPage EXCEPT
                    !.answers = NoAnswers, !.result = "none", !.error = FALSE,
                    !.timeLeft = IF quizPage.timeLimit > 0
                                 THEN quizPage.timeLimit * SecPerMin
                                 ELSE NoTime]
  /\ UNCHANGED <<playerVars, auth, quizForm>>

\* --------------------------------------------------------------- AdminQuiz
\* formData.questions of the quiz form.  An option is added with the empty
\* text, so its text does not tell it from the others: an option is written
\* as the mark "this is the option the correct answer was last set to".
MinOptions == 2       \* question.options.length <= 2: nothing is removed

\* AdminQuiz on a level that has no quiz yet, loaded.
FormFresh == [FormAway EXCEPT !.mounted = TRUE]

\* correctAnswer is the place of the option last made the correct one.
OnChosen(question) == question.options[question.correctAnswer + 1]

\* options.splice(optionIndex, 1), optionIndex counted from 0.
splice(options, optionIndex) == Remove(options, optionIndex + 1)

addQuestion ==
  /\ quizForm.mounted
  /\ Len(quizForm.questions) < MaxFormQuestions
  /\ quizForm' =
       [quizForm EXCEPT
          !.questions = Append(@, [options |-> <<TRUE, FALSE>>, correctAnswer |-> 0]),
          !.last = [op |-> "addQuestion"]]
  /\ UNCHANGED <<playerVars, auth, quizPage>>

\* updateQuestion(index, 'correctAnswer', oIndex): the radio of option oIndex.
updateQuestion(index, oIndex) ==
  /\ quizForm.mounted
  /\ index \in 1..Len(quizForm.questions)
  /\ oIndex \in 0..(Len(quizForm.questions[index].options) - 1)
  /\ quizForm' = [quizForm EXCEPT
                    !.questions[index].options =
                       [k \in 1..Len(@) |-> k = oIndex + 1],
                    !.questions[index].correctAnswer = oIndex,
                    !.last = [op |-> "setCorrect"]]
  /\ UNCHANGED <<playerVars, auth, quizPage>>

addOption(questionIndex) ==
  /\ quizForm.mounted
  /\ questionIndex \in 1..Len(quizForm.questions)
  /\ Len(quizForm.questions[questionIndex].options) < MaxFormOptions
  /\ quizForm' = [quizForm EXCEPT
                    !.questions[questionIndex].options =
                       Append(@, FALSE),
                    !.last = [op |-> "addOption"]]
  /\ UNCHANGED <<playerVars, auth, quizPage>>

\* Mutant of removeOption: correctAnswer is not adjusted.
removeOptionNoAdjust(questionIndex, optionIndex) ==
  LET question == quizForm.questions[questionIndex] IN
  /\ quizForm.mounted
  /\ questionIndex \in 1..Len(quizForm.questions)
  /\ optionIndex \in 0..(Len(question.options) - 1)
  /\ quizForm' =
       IF Len(question.options) <= MinOptions
       THEN [quizForm EXCEPT !.last = [op |-> "refused"]]
       ELSE [quizForm EXCEPT
               !.questions[questionIndex].options = splice(@, optionIndex),
               !.last = [op |-> "remove", q |-> questionIndex,
                         o |-> optionIndex, ca |-> question.correctAnswer]]
  /\ UNCHANGED <<playerVars, auth, quizPage>>

removeOption(questionIndex, optionIndex) ==
  LET question == quizForm.questions[questionIndex] IN
  /\ quizForm.mounted
  /\ questionIndex \in 1..Len(quizForm.questions)
  /\ optionIndex \in 0..(Len(question.options) - 1)
  /\ quizForm' =
       IF Len(question.options) <= MinOptions
       THEN [quizForm EXCEPT !.last = [op |-> "refused"]]
       ELSE [quizForm EXCEPT
               !.questions[questionIndex].options = splice(@, optionIndex),
               !.questions[questionIndex].correctAnswer =
                  IF @ >= optionIndex THEN Max(0, @ - 1) ELSE @,
               !.last = [op |-> "remove", q |-> questionIndex,
                         o |-> optionIndex, ca |-> question.correctAnswer]]
  /\ UNCHANGED <<playerVars, auth, quizPage>>

removeQuestion(index) ==
  /\ quizForm.mounted
  /\ index \in 1..Len(quizForm.questions)
  /\ quizForm' = [quizForm EXCEPT !.questions = Remove(@, index),
                                  !.last = [op |-> "removeQuestion"]]
  /\ UNCHANGED <<playerVars, auth, quizPage>>

\* ------------------------------------------------------------------- sound
SliderOver == 6       \* how far outside [0, 1] a slider value is tried (0.3)

\* The value an <input type="range" min="0" max="1" step="0.1"> holds after
\* raw is written to it: snapped to the step, clamped to [min, max].
RangeInputValue(raw) ==
  Min(VolMax, Max(0, ((raw + SliderStep \div 2) \div SliderStep) * SliderStep))

\* handleVolumeChange(e) with parseFloat(e.target.value) = newVolume.
handleVolumeChange(newVolume) ==
  /\ mounted /\ ~isLoading /\ video.present
  /\ volume' = newVolume
  /\ video' = [video EXCEPT !.vol = newVolume]
  /\ UNCHANGED <<routeVars, dataVars, isLoading, isPlaying, timeVars,
                 isMuted, showQuizDialog, videoLoadFailed, warnVars, playReq,
                 loads, ended, serverVars, lastReport>>

\* The slider is moved to raw.
SliderChange(raw) ==
  /\ handleVolumeChange(RangeInputValue(raw))
  /\ lastEvent' = Ev([name |-> "slider", raw |-> raw, from |-> volume])

\* Mutant of KeyVolume: Math.min(1, ...) is missing.
KeyVolumeNoCeiling(prev, step) == Max(0, prev + step)

\* ArrowUp / ArrowDown of handleKeyDown: the functional setVolume update.
KeyVolume(prev, step) == Min(VolMax, Max(0, prev + step))

\* handleKeyDown for ArrowUp (step > 0) and ArrowDown (step < 0), followed
\* by the [volume] effect that copies the state to the element.
handleKeyDownVolume(step) ==
  /\ mounted /\ video.present
  /\ volume' = KeyVolume(volume, step)
  /\ video' = IF volume' # volume THEN [video EXCEPT !.vol = volume']
               ELSE video
  /\ lastEvent' = Ev([name |-> "volumeKey"])
  /\ UNCHANGED <<routeVars, dataVars, isLoading, isPlaying, timeVars,
                 isMuted, showQuizDialog, videoLoadFailed, warnVars, playReq,
                 loads, ended, serverVars, lastReport>>

\* The record of a run of consecutive toggleMute calls: the muted flag and
\* the volumes before the first of them, and whether their number is odd.
MuteEvent ==
  IF lastEvent.name = "mute"
  THEN [lastEvent EXCEPT !.odd = ~lastEvent.odd]
  ELSE Ev([name |-> "mute", muted0 |-> isMuted, volume0 |-> volume,
           vol0 |-> video.vol, odd |-> TRUE])

\* Mutant of toggleMute: muting also sets the volume to 0.
toggleMuteZeroesVolume ==
  /\ mounted /\ ~isLoading /\ video.present
  /\ video' = [video EXCEPT !.muted = ~isMuted,
                            !.vol = IF isMuted THEN video.vol ELSE 0]
  /\ isMuted' = ~isMuted
  /\ volume' = IF isMuted THEN volume ELSE 0
  /\ lastEvent' = MuteEvent
  /\ UNCHANGED <<routeVars, dataVars, isLoading, isPlaying, timeVars,
                 showQuizDialog, videoLoadFailed, warnVars, playReq,
                 loads, ended, serverVars, lastReport>>

toggleMute ==
  /\ mounted /\ ~isLoading /\ video.present
  /\ video' = [video EXCEPT !.muted = ~isMuted]
  /\ isMuted' = ~isMuted
  /\ lastEvent' = MuteEvent
  /\ UNCHANGED <<routeVars, dataVars, isLoading, isPlaying, timeVars,
                 volume, showQuizDialog, videoLoadFailed, warnVars, playReq,
                 loads, ended, serverVars, lastReport>>

\* ------------------------------------------------------------ specifications
Navigation ==
  \/ \E i \in Levels : SidebarClick(i)
  \/ \E step \in {-1, 1} : navigateToLevel(step)

Loading ==
  \/ \E i \in 1..MaxLoads : LoadFetchOK(i)
  \/ \E i \in 1..MaxLoads : LoadFetchFail(i)
  \/ \E i \in 1..MaxLoads, found \in BOOLEAN : LoadQuiz(i, found)

Controls ==
  \/ handleLoadedMetadata
  \/ togglePlayPause
  \/ togglePlayStart
  \/ togglePlayBlocked
  \/ PlayResolved
  \/ PlayRejected
  \/ Advance
  \/ SeekTimeUpdate
  \/ videoOnError

Playback == Controls \/ SeekEnded

Seeking ==
  \/ \E d \in {-SeekStepSec, SeekStepSec} : seekBy(d)
  \/ \E x \in (-1)..(BarWidth + 1) : seekToClientX(x)

Monitors ==
  \/ handleVisibilityChange
  \/ handleBlur
  \/ handlePrintScreen
  \/ \E dw \in {0, DevtoolsThreshold + 1}, dh \in {DevtoolsThreshold, DevtoolsThreshold + 1} :
        devtoolsInterval(dw, dh)
  \/ \E i \in 1..MaxTimers : TimerFire(i)
  \/ DismissTabSwitchWarning
  \/ DismissSecurityWarning

Sound ==
  \/ \E raw \in (-SliderOver)..(VolMax + SliderOver) : SliderChange(raw)
  \/ \E step \in {-KeyVolStep, KeyVolStep} : handleKeyDownVolume(step)
  \/ toggleMute

\* The playback session: every handler that touches the play state, the
\* level shown, the loads in flight and the warnings.  The responses to the
\* completion report are followed in SpecCompletion, the lock warning and
\* the failed state in SpecSession, numbers in SpecSeek and SpecReport, the
\* volume in SpecSound.
Init == InitWith({CoarseDur}, {"blur", "hidden", "stale"})

Next ==
  \/ Navigation
  \/ Loading
  \/ Playback
  \/ Seeking
  \/ Monitors
  \/ progressInterval
  \/ Unmount

Spec == Init /\ [][Next]_vars

\* What follows the end of a video: the completion report, the refresh of
\* the level list and the quiz prompt, with level changes in between.
InitCompletion == InitWith({CoarseDur}, {"report"})

Completion ==
  \/ \E i \in 1..MaxEnded : CompleteAck(i)
  \/ \E i \in 1..MaxEnded : CompleteFail(i)
  \/ \E i \in 1..MaxEnded : RefreshOK(i)
  \/ \E i \in 1..MaxEnded : RefreshFail(i)
  \/ ReviewVideo

NextCompletion ==
  \/ (\E i \in Levels : SidebarClick(i))
  \/ Loading
  \/ handleLoadedMetadata
  \/ togglePlayStart
  \/ PlayResolved
  \/ Advance
  \/ Completion

SpecCompletion == InitCompletion /\ [][NextCompletion]_vars

\* Navigation, loading and playback with the media failure, without seeking:
\* the lock warning and the failed state.
InitSession ==
  InitWith({CoarseDur}, {"navigate", "toggle", "playResolved", "playRejected"})

NextSession ==
  \/ Navigation
  \/ Loading
  \/ Controls
  \/ (\E i \in 1..MaxTimers : TimerFire(i))
  \/ handleBlur
  \/ Unmount

SpecSession == InitSession /\ [][NextSession]_vars

\* Level changes by click and by the route, the fetches they start, and the
\* progress reports of the video that is shown.
InitLoad == InitWith({CoarseDur}, {"loaded", "loadFailed", "report"})

NextLoad ==
  \/ (\E i \in Levels : SidebarClick(i))
  \/ (\E target \in Levels : RouteChange(target))
  \/ Loading
  \/ handleLoadedMetadata
  \/ togglePlayStart
  \/ PlayResolved
  \/ Advance
  \/ progressInterval

SpecLoad == InitLoad /\ [][NextLoad]_vars

\* Overlapping fetches that all succeed, in any arrival order.
InitRace == InitWith({CoarseDur}, {"loaded"})

NextRace ==
  \/ (\E i \in Levels : SidebarClick(i))
  \/ (\E target \in Levels : RouteChange(target))
  \/ (\E i \in 1..MaxLoads : LoadFetchOK(i))
  \/ (\E i \in 1..MaxLoads, found \in BOOLEAN : LoadQuiz(i, found))
  \/ handleLoadedMetadata
  \/ togglePlayStart
  \/ PlayResolved

SpecRace == InitRace /\ [][NextRace]_vars

\* The 30 s progress sync and the failure of its reports.
InitSync == InitWith({CoarseDur}, {"report", "tick"})

NextSync ==
  \/ (\E i \in Levels : SidebarClick(i))
  \/ Loading
  \/ handleLoadedMetadata
  \/ togglePlayPause
  \/ togglePlayStart
  \/ PlayResolved
  \/ Advance
  \/ progressInterval
  \/ PeriodicFail

SpecSync == InitSync /\ [][NextSync]_vars

\* Every way to change the level, with the unlocking of the next level by a
\* completed video and the refresh of the level list that follows it.
InitLock == InitWith({CoarseDur}, {})

NextLock ==
  \/ Navigation
  \/ Loading
  \/ (\E i \in 1..MaxTimers : TimerFire(i))
  \/ handleLoadedMetadata
  \/ togglePlayStart
  \/ PlayResolved
  \/ Advance
  \/ (\E i \in 1..MaxEnded : CompleteAck(i))
  \/ (\E i \in 1..MaxEnded : RefreshOK(i))

SpecLock == InitLock /\ [][NextLock]_vars

\* Playback with the progress events of the download.
InitBuffer == InitWith({CoarseDur}, {})

NextBuffer ==
  \/ (\E i \in Levels : SidebarClick(i))
  \/ Loading
  \/ handleLoadedMetadata
  \/ togglePlayStart
  \/ PlayResolved
  \/ Advance
  \/ (\E end \in 0..(CoarseDur * BarWidth + BufOver) : updateBuffered(end))

SpecBuffer == InitBuffer /\ [][NextBuffer]_vars

\* Clicks and drags on the progress bar, without the passing of time.
InitRatio == InitWith({FineDur, ScenarioDur}, {"seek"})

NextRatio ==
  \/ (\E i \in Levels : SidebarClick(i))
  \/ Loading
  \/ handleLoadedMetadata
  \/ togglePlayStart
  \/ PlayResolved
  \/ (\E x \in (-1)..(BarWidth + 1) : seekToClientX(x))
  \/ SeekTimeUpdate
  \/ SeekEnded

SpecRatio == InitRatio /\ [][NextRatio]_vars

\* Seeking in a media of FineDur seconds.
InitSeek == InitWith({FineDur}, {"seek"})

NextSeek ==
  \/ Loading
  \/ Playback
  \/ Seeking
  \/ \E i \in 1..MaxTimers : TimerFire(i)

SpecSeek == InitSeek /\ [][NextSeek]_vars

\* The periodic progress report while a media of FineDur seconds plays.
InitReport == InitWith({FineDur}, {"report"})

NextReport ==
  \/ Loading
  \/ Playback
  \/ \E d \in {-SeekStepSec, SeekStepSec} : seekBy(d)
  \/ progressInterval
  \/ \E i \in 1..MaxTimers : TimerFire(i)

SpecReport == InitReport /\ [][NextReport]_vars

\* The volume and the mute flag, across level changes.
InitSound == InitWith({CoarseDur}, {"slider", "mute"})

NextSound ==
  \/ Navigation
  \/ Loading
  \/ Sound
  \/ videoOnError

SpecSound == InitSound /\ [][NextSound]_vars

\* The warning banner: every handler that sets or clears securityWarning,
\* with two clear timeouts pending at once and the owner of each recorded.
InitWarn == InitWith({CoarseDur}, {"owner", "timeout", "devtools"})

WarnTimeout == \E i \in 1..MaxWarnTimers : TimerFire(i)

NextWarn ==
  \/ (\E step \in {-1, 1} : navigateToLevel(step))
  \/ Loading
  \/ handleLoadedMetadata
  \/ togglePlayStart
  \/ togglePlayBlocked
  \/ PlayResolved
  \/ PlayRejected
  \/ handlePrintScreen
  \/ (\E dw \in {0, DevtoolsThreshold + 1},
         dh \in {DevtoolsThreshold, DevtoolsThreshold + 1} :
           devtoolsInterval(dw, dh))
  \/ WarnTimeout
  \/ DismissSecurityWarning

SpecWarn == InitWarn /\ [][NextWarn]_vars

\* The same with the scheduling of setTimeout: a pending timeout fires.
SpecWarnLive == SpecWarn /\ WF_vars(WarnTimeout)

\* navigateToLevel applied to every level list the backend serves and
\* every route, the route of a level that is not in the list of the course
\* (id NumLevels + 1) included.
ForeignLevel == NumLevels + 1

InitNav == InitFrom(Levels \cup {ForeignLevel}, {CoarseDur}, {"navigate"})

NextNav ==
  \/ (\E step \in {-1, 1} : navigateToLevel(step))
  \/ Loading
  \/ handleLoadedMetadata
  \/ togglePlayStart
  \/ PlayResolved
  \/ (\E i \in 1..MaxTimers : TimerFire(i))

SpecNav == InitNav /\ [][NextNav]_vars

\* Seeks on a player that cannot seek: before the metadata of the media
\* arrive, and after the element is gone (load failed, media error).
InitIdle == InitWith({CoarseDur}, {"seekIgnored"})

NextIdle ==
  \/ (\E i \in Levels : SidebarClick(i))
  \/ Loading
  \/ handleLoadedMetadata
  \/ togglePlayStart
  \/ PlayResolved
  \/ Advance
  \/ videoOnError
  \/ Seeking

SpecIdle == InitIdle /\ [][NextIdle]_vars

\* The control surface: the handlers that change isPlaying, the settings
\* menu, pointer activity and the auto-hide timeout.
InitSurface == InitWith({CoarseDur}, {"blur"})

NextSurface ==
  \/ Loading
  \/ handleLoadedMetadata
  \/ togglePlayPause
  \/ togglePlayStart
  \/ PlayResolved
  \/ Advance
  \/ videoOnError
  \/ handleBlur
  \/ (\E dw \in {0, DevtoolsThreshold + 1} : devtoolsInterval(dw, 0))
  \/ onMouseMove
  \/ toggleSettings
  \/ controlsHideTimeout

SpecSurface == InitSurface /\ [][NextSurface]_vars

\* The session: a page load with what an earlier visit left in
\* localStorage, the check of that token, and a login meanwhile.
InitAuth ==
  /\ PlayerAway
  /\ \E t \in Users \cup {NoOne} :
       \E su \in (IF t = NoOne THEN {NoOne} ELSE {t, Garbage, NoOne}) :
         auth = AuthFresh(t, su)
  /\ quizPage = QuizAway
  /\ quizForm = FormAway

NextAuth ==
  \/ initAuth
  \/ getMeOK
  \/ getMeUnauthorized
  \/ getMeFailed
  \/ (\E u \in Users : login(u))
  \/ (\E u \in Users : register(u))
  \/ loginOK
  \/ loginFailed
  \/ refreshUser
  \/ refreshOK
  \/ refreshFailed
  \/ logout

SpecAuth == InitAuth /\ [][NextAuth]_vars

\* A quiz taken: answers, the countdown, submissions and retries.
InitQuiz ==
  /\ PlayerAway
  /\ auth = AuthSettled(1)
  /\ quizPage = QuizFresh
  /\ quizForm = FormAway

NextQuiz ==
  \/ (\E tl \in 0..MaxTimeLimit : fetchQuizOK(tl))
  \/ fetchQuizFailed
  \/ (\E q \in 1..NumQuestions, o \in 0..(NumOptions - 1) :
        handleAnswerSelect(q, o))
  \/ SubmitClick
  \/ QuizTick
  \/ (\E passed \in BOOLEAN : submitOK(passed))
  \/ submitFailed
  \/ handleRetry

SpecQuiz == InitQuiz /\ [][NextQuiz]_vars

\* The quiz form edited from an empty list of questions.
InitForm ==
  /\ PlayerAway
  /\ auth = AuthSettled(1)
  /\ quizPage = QuizAway
  /\ quizForm = FormFresh

NextForm ==
  \/ addQuestion
  \/ (\E index \in 1..MaxFormQuestions, oIndex \in 0..(MaxFormOptions - 1) :
        updateQuestion(index, oIndex))
  \/ (\E questionIndex \in 1..MaxFormQuestions : addOption(questionIndex))
  \/ (\E questionIndex \in 1..MaxFormQuestions,
         optionIndex \in 0..(MaxFormOptions - 1) :
           removeOption(questionIndex, optionIndex))
  \/ (\E index \in 1..MaxFormQuestions : removeQuestion(index))

SpecForm == InitForm /\ [][NextForm]_vars

\* ------------------------------------------------------------------ claims
IndexOf(log, x) ==
  IF \E k \in 1..Len(log) : log[k] = x
  THEN CHOOSE k \in 1..Len(log) :
         log[k] = x /\ \A j \in 1..(k - 1) : log[j] # x
  ELSE 0
Count(log, x) == Cardinality({k \in 1..Len(log) : log[k] = x})
Settled(e) == Len(e.log) > 1
Has(log, x) == IndexOf(log, x) > 0

C2_TabSwitchAlwaysPauses ==
  (lastEvent.name \in {"blur", "hidden"} /\ lastEvent.wasPlaying) =>
    (~isPlaying /\ tabSwitchWarning /\ video.paused)

\* C3: navigateToLevel towards a locked neighbour leaves the active level
\* as it was and raises the lock warning.
C3_LockedNeighbourStays ==
  (lastEvent.name = "navigate" /\ lastEvent.locked) =>
    /\ levelId = lastEvent.from
    /\ securityWarning = "locked"

\* C3 witness: 'next' or 'prev' was pressed towards a locked level.
C3_Witness ==
  /\ lastEvent.name = "navigate" /\ lastEvent.locked
  /\ securityWarning = "locked"
  /\ level = levelId

\* The value v is Math.round(100 * t / d): v - 1/2 <= 100 t / d < v + 1/2.
IsRounded(v, t, d) ==
  (2 * v - 1) * d <= 200 * t /\ 200 * t < (2 * v + 1) * d

\* C4 as stated: a periodic report carries round(100 * currentTime /
\* duration) of the moment it is sent, and that value exceeds 10.
C4_ReportedValueExceedsTen ==
  lastReport.kind = "periodic" =>
    /\ IsRounded(lastReport.pct, lastReport.t, lastReport.d)
    /\ lastReport.pct > MinReportPercent

\* C4 amended: a periodic report carries round(100 * currentTime / duration)
\* of the moment it is sent and is sent only when the unrounded percentage
\* exceeds 10; the value sent is therefore 10 or more.
C4_UnroundedValueExceedsTen ==
  lastReport.kind = "periodic" =>
    /\ IsRounded(lastReport.pct, lastReport.t, lastReport.d)
    /\ 100 * lastReport.t > MinReportPercent * lastReport.d
    /\ lastReport.pct >= MinReportPercent

\* C4 witness: a periodic report sent with the value 10.
C4_Witness ==
  /\ lastReport.kind = "periodic"
  /\ lastReport.pct = MinReportPercent
  /\ lastReport.t = video.time

\* C5 as stated: when a Load completes and the requested level is shown,
\* the playback state is the initial one.  (securityWarning and hasQuiz are
\* left out: a monitor may warn during the load, and the load sets hasQuiz.)
C5_LevelChangeResets ==
  [][(isLoading /\ ~isLoading' /\ mounted' /\ level' = levelId') =>
       /\ isPlaying' = FALSE
       /\ progress' = PctZero
       /\ currentTime' = 0
       /\ duration' = 0
       /\ bufferedPercent' = PctZero
       /\ tabSwitchWarning' = FALSE
       /\ showQuizDialog' = FALSE
       /\ videoLoadFailed' = FALSE]_vars

\* C6 as stated: no warning-clear timeout set in an earlier level session
\* (or before the unmount) is still pending.
C6_NoTimeoutOutlivesItsLevel ==
  \A i \in 1..Len(timers) : ~timers[i].stale

\* C7: the prompt is shown in the step that acknowledges the report, with
\* the level list still the one held before; the refreshed list is applied
\* in a later step; a failed refresh changes nothing the player holds.
C7_Order ==
  \A i \in 1..Len(ended) :
    LET log == ended[i].log IN
    /\ Has(log, "prompt") =>
         /\ Has(log, "ack") /\ IndexOf(log, "report") < IndexOf(log, "ack")
         /\ IndexOf(log, "ack") < IndexOf(log, "prompt")
    /\ Has(log, "applied") =>
         /\ IndexOf(log, "ack") < IndexOf(log, "applied")
         /\ Has(log, "prompt") =>
              IndexOf(log, "prompt") < IndexOf(log, "applied")

PlayerState ==
  <<levelId, level, allLevels, hasQuiz, isLoading, isPlaying, progress,
    duration, currentTime, bufferedPercent, isMuted, volume, showQuizDialog,
    videoLoadFailed, tabSwitchWarning, securityWarning, video>>

C7_Step ==
  \A i \in 1..Len(ended) :
    /\ (Len(ended') = Len(ended) /\ ~Has(ended[i].log, "prompt")
          /\ Has(ended'[i].log, "prompt")) =>
         (InFlight(ended[i]) /\ showQuizDialog' /\ allLevels' = allLevels)
    /\ (Len(ended') = Len(ended) /\ ~Has(ended[i].log, "refreshFailed")
          /\ Has(ended'[i].log, "refreshFailed")) =>
         PlayerState' = PlayerState
    /\ (Len(ended') = Len(ended) /\ ~Has(ended[i].log, "applied")
          /\ Has(ended'[i].log, "applied")) =>
         (allLevels' = ServerLevels /\ showQuizDialog' = showQuizDialog)

C8_FailedIsTerminal ==
  /\ [](videoLoadFailed =>
          ~isPlaying /\ ~video.present /\ playReq # "pending")
  /\ [][(videoLoadFailed /\ ~videoLoadFailed') =>
          (levelId' # levelId \/ ~mounted')]_vars

\* C8 witness: the media failed while play() was pending; its rejection ran
\* afterwards and the session is still failed.
C8_Witness ==
  /\ videoLoadFailed /\ ~isLoading /\ level = levelId
  /\ securityWarning = "blocked"
  /\ tabSwitchWarning

\* C9: with a known duration, a seek leaves the element at the target when
\* the target lies in [0, duration] and at the nearest bound otherwise.
C9_SeekClamps ==
  lastEvent.name = "seek" =>
    /\ video.dur > 0
    /\ video.time = (IF lastEvent.target < 0 THEN 0
                     ELSE IF lastEvent.target > video.dur THEN video.dur
                     ELSE lastEvent.target)

\* C9 witnesses: a seek beyond the end, and one before the start, from a
\* position inside the media.
C9_Witness ==
  /\ lastEvent.name = "seek"
  /\ lastEvent.target > video.dur
  /\ lastEvent.from > 0 /\ lastEvent.from < video.dur
  /\ video.time = video.dur

\* C10: the stored volume and the element's volume stay within [0, 1], and
\* a slider set to 1.3 stores 1.0.
C10_VolumeInRange ==
  /\ volume \in 0..VolMax
  /\ video.vol \in 0..VolMax
  /\ (lastEvent.name = "slider" /\ lastEvent.raw > VolMax) =>
       (volume = VolMax /\ video.vol = VolMax)

\* C10 witness: the slider was set to 1.3 after the volume had been lowered.
C10_Witness ==
  /\ lastEvent.name = "slider" /\ lastEvent.raw = VolMax + SliderOver
  /\ lastEvent.from < VolMax
  /\ volume = VolMax /\ video.present /\ video.vol = VolMax

\* C11: togglePlay while isPlaying pauses the element and clears isPlaying;
\* otherwise it requests play and isPlaying stays false until the request
\* succeeds; isPlaying becomes true only in the step in which a pending
\* play() resolves; after a rejection isPlaying is false, the "blocked"
\* warning is shown and its 4 s clearing timeout is pending.
C11_State ==
  /\ (lastEvent.name = "toggle" /\ lastEvent.wasPlaying) =>
       (video.paused /\ ~isPlaying)
  /\ (lastEvent.name = "toggle" /\ ~lastEvent.wasPlaying) =>
       (~isPlaying /\ ~video.paused /\ playReq = "pending")
  /\ lastEvent.name = "playResolved" => (isPlaying /\ playReq = "none")
  /\ lastEvent.name = "playRejected" =>
       /\ ~isPlaying /\ playReq = "none"
       /\ securityWarning = "blocked"
       /\ \E i \in 1..Len(timers) : timers[i].delay = DelayBlocked

C11_TogglePlay ==
  /\ [](C11_State)
  /\ [][(~isPlaying /\ isPlaying') =>
          (playReq = "pending" /\ lastEvent'.name = "playResolved")]_vars

\* C11 witness: a play() request was rejected after the user had toggled.
C11_Witness ==
  /\ lastEvent.name = "playRejected"
  /\ ~isPlaying /\ securityWarning = "blocked"
  /\ video.present /\ video.paused

\* C12 as stated: after the fetch of the requested level has failed the
\* player is not loading and presents no level other than the requested one
\* (no detail and no video of another level).
C12_FailedLoadShowsNoData ==
  (lastEvent.name = "loadFailed" /\ lastEvent.from = levelId) =>
    /\ ~isLoading
    /\ level \in {NoLevel, levelId}
    /\ video.present => level = levelId

\* C18 as stated: once every outstanding fetch has settled (all of them
\* successfully), the level detail held is that of the level requested last.
C18_LastRequestWins ==
  (mounted /\ loads = <<>>) => level = levelId

\* C19 as stated: every progress report names the level whose video is
\* loaded in the media element when the report is sent.
C19_ReportNamesLoadedLevel ==
  lastReport.kind \in {"periodic", "complete"} =>
    lastReport.levelId = lastReport.src

\* C20 as stated: when a Load completes for a level, hasQuiz is true if and
\* only if the level has quizEnabled and its quiz lookup succeeded.
C20_QuizAvailability ==
  lastEvent.name = "loaded" =>
    (hasQuiz <=> (QuizEnabled(lastEvent.from) /\ lastEvent.found))

\* The threshold of the periodic report holds in the current state.
PastThreshold ==
  /\ video.present /\ level # NoLevel /\ video.dur > 0
  /\ 100 * video.time > MinReportPercent * video.dur

\* C13: the failure of a periodic report changes nothing the user sees and
\* no timer; every later tick is still taken, evaluates the threshold and,
\* past it, sends a report with the values of that moment; a report is sent
\* by a tick only, never again by the failure itself.
C13_Tick ==
  /\ mounted => ENABLED progressInterval
  /\ (lastEvent.name = "tick" /\ PastThreshold) =>
       /\ lastReport.kind = "periodic"
       /\ lastReport.t = video.time /\ lastReport.d = video.dur
  /\ lastEvent.name = "tick" => (lastEvent.sent <=> PastThreshold)

C13_Step ==
  /\ (lastReport.kind = "periodic" /\ lastReport'.kind = "periodicFailed") =>
       (PlayerState' = PlayerState /\ timers' = timers)
  /\ (lastReport' # lastReport /\ lastReport'.kind = "periodic") =>
       lastEvent'.name = "tick"

C15_Range == bufferedPercent.n >= 0 /\ bufferedPercent.n <= bufferedPercent.d

C15_Step ==
  (/\ video.present /\ video.buf > 0
   /\ video'.present /\ video'.buf >= video.buf /\ video'.dur = video.dur
   /\ level' = level) =>
    PctLeq(bufferedPercent, bufferedPercent')

C15_BufferedMonotone == [](C15_Range) /\ [][C15_Step]_vars

\* C15 witness: while the video plays, the buffered range has grown beyond
\* the duration and 100 % is shown.
C15_Witness ==
  /\ isPlaying /\ video.present /\ video.time > 0
  /\ video.buf > video.dur
  /\ PctEq(bufferedPercent, Pct(1, 1))

\* C16: with a known duration d, a seek to the ratio r = px / BarWidth in
\* [0, 1] leaves the element at r * d and the progress value at 100 * r.
C16_SeekToRatio ==
  (lastEvent.name = "seek" /\ lastEvent.byRatio
     /\ lastEvent.px \in 0..BarWidth) =>
    /\ video.dur > 0
    /\ video.time * BarWidth = lastEvent.px * video.dur
    /\ progress.n * BarWidth = lastEvent.px * progress.d

\* C16 witness: duration 600 s and ratio 0.5 give 300 s and 50 %.
C16_Witness ==
  /\ lastEvent.name = "seek" /\ lastEvent.byRatio
  /\ 2 * lastEvent.px = BarWidth
  /\ video.dur = ScenarioDur * BarWidth
  /\ 2 * video.time = ScenarioDur * BarWidth
  /\ progress = Pct(1, 2)

\* C17: after any number of consecutive toggleMute calls the stored volume
\* and the element's volume are what they were before the first one, the
\* muted flag is flipped after an odd number of calls and back at its
\* original value after an even number, and the element follows the flag.
C17_MuteKeepsVolume ==
  lastEvent.name = "mute" =>
    /\ volume = lastEvent.volume0
    /\ video.vol = lastEvent.vol0
    /\ isMuted = (IF lastEvent.odd THEN ~lastEvent.muted0 ELSE lastEvent.muted0)
    /\ video.muted = isMuted

\* C17 witness: mute toggled twice with the volume lowered before.
C17_Witness ==
  /\ lastEvent.name = "mute" /\ ~lastEvent.odd
  /\ lastEvent.volume0 > 0 /\ lastEvent.volume0 < VolMax
  /\ volume = lastEvent.volume0 /\ isMuted = lastEvent.muted0

\* C21 as stated: a warning in the banner is cleared in the end without a
\* dismissal, once no tick of the developer-tools check finds the tools
\* open any more.
OverTick == lastEvent.name = "devtools" /\ lastEvent.over
UnderTick == lastEvent.name = "devtools" /\ ~lastEvent.over
C21_WarningSelfClears ==
  (securityWarning # NoWarning /\ UnderTick)
    ~> (securityWarning = NoWarning \/ OverTick)

\* C22 as stated: a clear timeout that fires removes no warning but the one
\* it was set with.
C22_TimeoutClearsOnlyItsOwnWarning ==
  lastEvent.name = "timeout" =>
    lastEvent.cleared = NoWarning \/ lastEvent.own


\* C23 as stated: with no play() request outstanding, isPlaying is true
\* exactly when the <video> element exists and is not paused.
C23_PlayingMatchesElement ==
  playReq = "none" => (isPlaying <=> (video.present /\ ~video.paused))


\* C24 as stated: a tick of the developer-tools check that finds a delta
\* above the threshold leaves playback paused and the developer-tools
\* warning shown; a tick that finds none above it changes neither the
\* playback state nor the warnings.
C24_DevtoolsTick ==
  [][\A dw \in {0, DevtoolsThreshold + 1},
        dh \in {DevtoolsThreshold, DevtoolsThreshold + 1} :
       devtoolsInterval(dw, dh) =>
         IF dw > DevtoolsThreshold \/ dh > DevtoolsThreshold
         THEN /\ ~isPlaying'
              /\ video'.present => video'.paused
              /\ securityWarning' = "devtools"
         ELSE UNCHANGED <<isPlaying, video, playReq, securityWarning,
                          tabSwitchWarning>>]_vars


CannotSeek == ~video.present \/ video.dur <= 0
C26_SeekIgnored ==
  [][/\ \A d \in {-SeekStepSec, SeekStepSec} :
          CannotSeek /\ seekBy(d) => UNCHANGED <<video, progress, currentTime>>
     /\ \A x \in (-1)..(BarWidth + 1) :
          CannotSeek /\ seekToClientX(x) =>
            UNCHANGED <<video, progress, currentTime>>]_vars

\* A seek was ignored on an element without metadata while the progress of
\* the level left before is still shown.
C26_Witness ==
  /\ lastEvent.name = "seekIgnored" /\ lastEvent.present
  /\ video.present /\ video.dur <= 0


\* C27: while playback is paused or the settings menu is open the control
\* surface is visible; only the auto-hide timeout hides it, and only with
\* playback playing and the menu closed; every step that ends playback
\* leaves it visible.
C27_Visible == mounted /\ (~isPlaying \/ showSettings) => showControls
C27_Step ==
  /\ showControls /\ ~showControls' =>
       /\ controlsHideTimeout
       /\ isPlaying /\ ~showSettings
  /\ isPlaying /\ ~isPlaying' => showControls'
C27_ControlsVisibleWhenPaused == []C27_Visible /\ [][C27_Step]_vars

\* A tab switch paused playback while the controls were hidden, and they
\* are visible again.
C27_Witness ==
  /\ lastEvent.name = "blur" /\ lastEvent.wasPlaying /\ ~lastEvent.shown
  /\ ~isPlaying /\ showControls


\* C28 as stated: once login (or register) has stored its token and user,
\* the completion of the token check started at mount, success or failure,
\* leaves that token in storage and that user signed in.
C28_LoginSurvivesSessionCheck ==
  [][(getMeOK \/ getMeUnauthorized \/ getMeFailed) /\ auth.signedIn # NoOne =>
       /\ auth'.token = auth.signedIn
       /\ auth'.savedUser = auth.signedIn
       /\ auth'.user = auth.signedIn]_vars


\* C29 as stated: the countdown of a timed quiz starts at timeLimit * 60,
\* goes down by one per tick while no result is shown, never below 0, and
\* the tick that takes it to 0 issues one submission with every question
\* in it, the unanswered ones with selectedAnswer = -1.
C29_Countdown ==
  [][LET a == quizPage
         b == quizPage'
     IN /\ b.timeLeft # NoTime => b.timeLeft >= 0
        /\ b.timeLeft # a.timeLeft =>
             \/ /\ a.timeLeft = NoTime \/ (a.result # "none" /\ b.result = "none")
                /\ b.timeLeft = b.timeLimit * SecPerMin
             \/ /\ a.result = "none" /\ a.timeLeft # NoTime
                /\ b.timeLeft = a.timeLeft - 1
        /\ a.timeLeft = 1 /\ b.timeLeft = 0 =>
             /\ ~a.sent /\ b.sent
             /\ DOMAIN b.body = 1..NumQuestions
             /\ \A q \in 1..NumQuestions :
                  b.body[q] = IF q \in DOMAIN a.answers THEN a.answers[q]
                              ELSE Unanswered]_vars


\* C30: every question of the quiz form has at least 2 options and a
\* correctAnswer that is an index of its options; removing an option other
\* than the correct one leaves correctAnswer on the same option.
C30_Valid ==
  \A i \in 1..Len(quizForm.questions) :
    LET question == quizForm.questions[i] IN
    /\ Len(question.options) >= 2
    /\ question.correctAnswer >= 0
    /\ question.correctAnswer < Len(question.options)
C30_Step ==
  \A qi \in 1..MaxFormQuestions, oi \in 0..(MaxFormOptions - 1) :
    /\ removeOption(qi, oi)
    /\ quizForm'.last.op = "remove"
    /\ oi # quizForm.questions[qi].correctAnswer
    /\ OnChosen(quizForm.questions[qi])
    => OnChosen(quizForm'.questions[qi])
C30_CorrectAnswerValid == []C30_Valid /\ [][C30_Step]_vars

\* An option in front of the correct one was removed and correctAnswer
\* followed the correct option down.
C30_Witness ==
  /\ quizForm.last.op = "remove" /\ quizForm.last.o < quizForm.last.ca
  /\ quizForm.questions[quizForm.last.q].correctAnswer = quizForm.last.ca - 1
  /\ OnChosen(quizForm.questions[quizForm.last.q])

====
